---- MODULE Spec2Model ----
(***************************************************************************)
(* A model of the from-scratch containers (DynamicArray, SinglyLinkedList,  *)
(* Stack), the BytePairEncoder codec and the SocialNetwork graph of         *)
(* data_structures.py and xml_editor.py.                                    *)
(*                                                                          *)
(* Python strings are sequences of one-character strings, so that join and  *)
(* split are computed character by character.  Python's None is the string  *)
(* "None".  A dict is the sequence of its [key, val] entries in insertion   *)
(* order, which is the order Python iterates it in.                         *)
(***************************************************************************)
EXTENDS Integers, Sequences, FiniteSets, TLC

VARIABLES
    \* BytePairEncoder: one compress call followed by one decompress call
    data,           \* compress argument: the input string
    num_merges,     \* compress argument
    cpc,            \* position in compress / decompress
    text,           \* compress local: the current symbol list
    merges_map,     \* compress local, then decompress argument
    rounds,         \* compress: iterations of the for loop done so far
    compressed,     \* the string compress returned
    tokens,         \* decompress local
    undo,           \* decompress: entries of reversed(merges_map) left
    output          \* the string decompress returned

codecVars == <<data, num_merges, cpc, text, merges_map, rounds, compressed,
               tokens, undo, output>>

VARIABLES
    \* DynamicArray: one default-constructed array and the values appended to it
    da,             \* the DynamicArray object: capacity, size, data
    appended,       \* history: the arguments of the append calls that returned, in order
    written,        \* history: per index, the value last written there by append or set
    acall,          \* the last call made on the array: its name and arguments
    aret            \* what that call returned or raised

arrayVars == <<da, appended, written, acall, aret>>

VARIABLES
    \* Stack: one Stack object and the run of calls made on it
    stk,            \* the Stack object: its DynamicArray
    sret,           \* what the last push / pop / peek call returned or raised
    phase,          \* history: "push" while only pushes were made since the stack
                    \* was last empty, "pop" once pops follow them, else "mixed"
    pushed,         \* history: the values pushed in the current run
    popped,         \* history: the values the pops of the current run returned
    scall,          \* the last call made on the stack: its name and arguments
    lifo,           \* history: the abstract last-in-first-out sequence, top last
    lifo_ret        \* history: what the abstract sequence answers to the last call

stackVars == <<stk, sret, phase, pushed, popped, scall, lifo, lifo_ret>>

VARIABLES
    \* SocialNetwork: one graph object and the last call made on it
    users,          \* SocialNetwork.users: a DynamicArray of user dicts
    gcall,          \* the call being made, its name and arguments; NoCall between calls
    gret,           \* what the call being made returned or raised
    posted          \* history: per id, the posts given to add_post for it once it
                    \* was registered, in call order

graphVars == <<users, gcall, gret, posted>>

VARIABLES
    \* SinglyLinkedList: one list object and the values inserted into it
    sll,            \* the SinglyLinkedList object: head, _size, the nodes
    head_inserted,  \* history: the arguments of the insert_at_head calls, in order
    tail_inserted   \* history: the arguments of the insert_at_tail calls, in order

listVars == <<sll, head_inserted, tail_inserted>>

vars == <<codecVars, arrayVars, stackVars, graphVars, listVars>>

----------------------------------------------------------------------------
(* Bounds *)

MaxLen == 4         \* longest input string given to compress
MaxMerges == 2      \* largest num_merges given to compress

MaxAppends == 6     \* most append calls on the DynamicArray
MaxCapacity == 3    \* largest initial capacity a DynamicArray is constructed with
MaxStack == 5       \* most items on the Stack at once

MaxGraph == 5       \* most users + follower entries + posts in the graph

MaxHistory == 2     \* longest merge history given to decompress on its own

MaxNodes == 6       \* most insert calls on the SinglyLinkedList

Alphabet == {"a", "b", " "}
Ids == {"A", "B", "C"}
Names == {"n1", "n2"}
Posts == {[body |-> "hello", topics |-> <<"t">>]}
\* the lists of ids given to mutual_followers
\* the posts, words and topics of the search calls: strings are character lists
SearchPosts ==
    {[body |-> <<"H", "i">>, topics |-> << <<"T">>, <<"t">> >>],
     [body |-> <<"h">>, topics |-> << <<"T">> >>],
     [body |-> <<"i">>, topics |-> <<>>]}
\* the two of them that have topics
TaggedPosts == {post \in SearchPosts : post.topics # <<>>}
Words == {<<>>, <<"h">>, <<"H", "I">>, <<"i", "h">>}
Topics == {<<"T">>, <<"t">>, <<"u">>}
\* the letters that have two cases: <<upper, lower>>
CasePairs == {<<"H", "h">>, <<"I", "i">>, <<"T", "t">>, <<"U", "u">>}
\* the merge tokens of the histories given to decompress on its own
HistoryTokens == {<<>>, <<"a">>, <<"a", "a">>, <<"a", "b">>}
IdLists == {<<>>} \cup {<<a>> : a \in Ids} \cup {<<a, b>> : a \in Ids, b \in Ids}
Values == {"x", "y"}
\* the values appended where get and set are called too; set writes any of Values
Fill == {"x"}
\* the indexes given to get and set: one below the range to one past its end
Indexes == (0 - 1)..MaxAppends

DefaultCapacity == 2

None == "None"

----------------------------------------------------------------------------
(* Python built-ins *)

\* all strings over alphabet S of length at most n
StringsUpTo(S, n) == UNION {[1..m -> S] : m \in 0..n}

\* "".join(toks)
RECURSIVE JoinEmpty(_)
JoinEmpty(toks) ==
    IF toks = <<>> THEN <<>> ELSE Head(toks) \o JoinEmpty(Tail(toks))

\* " ".join(toks)
RECURSIVE JoinSpace(_)
JoinSpace(toks) ==
    IF toks = <<>> THEN <<>>
    ELSE IF Len(toks) = 1 THEN Head(toks)
    ELSE Head(toks) \o <<" ">> \o JoinSpace(Tail(toks))

\* s.split(" "): cuts at every single space, keeping empty pieces
RECURSIVE SplitFrom(_, _, _)
SplitFrom(s, i, cur) ==
    IF i > Len(s) THEN <<cur>>
    ELSE IF s[i] = " " THEN <<cur>> \o SplitFrom(s, i + 1, <<>>)
    ELSE SplitFrom(s, i + 1, Append(cur, s[i]))

SplitSpace(s) == SplitFrom(s, 1, <<>>)

\* list(s): the one-character strings of s
ListOfChars(s) == [i \in 1..Len(s) |-> <<s[i]>>]

\* s.lower(), character by character
str_lower(s) ==
    [i \in 1..Len(s) |->
        IF \E p \in CasePairs : p[1] = s[i]
        THEN (CHOOSE p \in CasePairs : p[1] = s[i])[2]
        ELSE s[i]]

\* needle in hay, for strings: the scan from offset k on
RECURSIVE str_in_from(_, _, _)
str_in_from(needle, hay, k) ==
    IF k + Len(needle) > Len(hay) THEN FALSE
    ELSE IF SubSeq(hay, k + 1, k + Len(needle)) = needle THEN TRUE
    ELSE str_in_from(needle, hay, k + 1)

str_in(needle, hay) == str_in_from(needle, hay, 0)

\* dict: key lookup, d.get(k, default), d[k] = v
DictHas(d, k) == \E i \in 1..Len(d) : d[i].key = k

DictGet(d, k, default) ==
    IF DictHas(d, k)
    THEN d[CHOOSE i \in 1..Len(d) : d[i].key = k].val
    ELSE default

DictPut(d, k, v) ==
    IF DictHas(d, k)
    THEN [i \in 1..Len(d) |-> IF d[i].key = k THEN [key |-> k, val |-> v] ELSE d[i]]
    ELSE Append(d, [key |-> k, val |-> v])

\* faulty variant of MaxKeyByValue: among the keys of maximal value the last one
MaxKeyByValue_last(d) ==
    d[CHOOSE i \in 1..Len(d) :
        /\ \A j \in 1..Len(d) : d[j].val <= d[i].val
        /\ \A j \in (i + 1)..Len(d) : d[j].val < d[i].val].key

\* max(d, key=d.get): the first key, in iteration order, of maximal value
MaxKeyByValue(d) ==
    d[CHOOSE i \in 1..Len(d) :
        /\ \A j \in 1..Len(d) : d[j].val <= d[i].val
        /\ \A j \in 1..(i - 1) : d[j].val < d[i].val].key

\* what a call returned (exc = "") or the exception it raised
Returned(v) == [exc |-> "", val |-> v]
Raised(e) == [exc |-> e, val |-> None]

----------------------------------------------------------------------------
(* DynamicArray.  data is 1-based here: Python's data[i] is data[i + 1]. *)

DynamicArray(capacity) ==
    [capacity |-> capacity, size |-> 0, data |-> [i \in 1..capacity |-> None]]

DynamicArray_len(a) == a.size

\* faulty variant of DynamicArray_resize: the copy loop stops one element short
DynamicArray_resize_drops_last(a, new_cap) ==
    [capacity |-> new_cap,
     size |-> a.size,
     data |-> [i \in 1..new_cap |-> IF i < a.size THEN a.data[i] ELSE None]]

DynamicArray_resize(a, new_cap) ==
    [capacity |-> new_cap,
     size |-> a.size,
     data |-> [i \in 1..new_cap |-> IF i <= a.size THEN a.data[i] ELSE None]]

\* append: the array after the call (the write of line 32 is in range whenever
\* the capacity is positive)
DynamicArray_append(a, value) ==
    LET b == IF a.size = a.capacity THEN DynamicArray_resize(a, 2 * a.capacity) ELSE a
    IN  [b EXCEPT !.data[b.size + 1] = value, !.size = b.size + 1]

\* append as a call: [exc, array after the call].  The write of line 32 raises
\* when the slot is outside the storage, after the resize of line 31 was made.
DynamicArray_append_call(a, value) ==
    LET b == IF a.size = a.capacity THEN DynamicArray_resize(a, 2 * a.capacity) ELSE a
    IN  IF b.size >= Len(b.data)
        THEN [exc |-> "IndexError", array |-> b]
        ELSE [exc |-> "", array |-> DynamicArray_append(a, value)]

DynamicArray_get(a, index) ==
    IF index < 0 \/ index >= a.size
    THEN Raised("IndexError")
    ELSE Returned(a.data[index + 1])

\* faulty variant of DynamicArray_set: the range check admits index = size
DynamicArray_set_off_by_one(a, index, value) ==
    IF index < 0 \/ index > a.size \/ index >= a.capacity
    THEN [exc |-> "IndexError", array |-> a]
    ELSE [exc |-> "", array |-> [a EXCEPT !.data[index + 1] = value]]

\* set: [exc, array after the call]
DynamicArray_set(a, index, value) ==
    IF index < 0 \/ index >= a.size
    THEN [exc |-> "IndexError", array |-> a]
    ELSE [exc |-> "", array |-> [a EXCEPT !.data[index + 1] = value]]

DynamicArray_to_list(a) == [i \in 1..a.size |-> a.data[i]]

NoArrayCall == [op |-> "none", args |-> <<>>]

\* a default-constructed array
ArrayStart ==
    /\ da = DynamicArray(DefaultCapacity)
    /\ appended = <<>>
    /\ written = <<>>
    /\ acall = NoArrayCall
    /\ aret = Returned(None)

\* an array constructed with a given initial capacity
ArrayStartWithCapacity ==
    /\ \E capacity \in 0..MaxCapacity : da = DynamicArray(capacity)
    /\ appended = <<>>
    /\ written = <<>>
    /\ acall = NoArrayCall
    /\ aret = Returned(None)

CallAppend(value) ==
    LET r == DynamicArray_append_call(da, value)
    IN  /\ Len(appended) < MaxAppends
        /\ da' = r.array
        /\ acall' = [op |-> "append", args |-> <<value>>]
        /\ aret' = [exc |-> r.exc, val |-> None]
        /\ IF r.exc = ""
           THEN appended' = Append(appended, value) /\ written' = Append(written, value)
           ELSE UNCHANGED <<appended, written>>
        /\ UNCHANGED <<codecVars, stackVars, graphVars, listVars>>

CallGet(index) ==
    /\ acall' = [op |-> "get", args |-> <<index>>]
    /\ aret' = DynamicArray_get(da, index)
    /\ UNCHANGED <<da, appended, written>>
    /\ UNCHANGED <<codecVars, stackVars, graphVars, listVars>>

CallSet(index, value) ==
    LET r == DynamicArray_set(da, index, value)
    IN  /\ da' = r.array
        /\ acall' = [op |-> "set", args |-> <<index, value>>]
        /\ aret' = [exc |-> r.exc, val |-> None]
        /\ written' = IF index + 1 \in DOMAIN written
                      THEN [written EXCEPT ![index + 1] = value]
                      ELSE written
        /\ UNCHANGED appended
        /\ UNCHANGED <<codecVars, stackVars, graphVars, listVars>>

----------------------------------------------------------------------------
(* SinglyLinkedList.  The nodes live in the sequence nodes; a reference to  *)
(* a node is its index there, and 0 is None.                                 *)

SinglyLinkedList == [head |-> 0, size |-> 0, nodes |-> <<>>]

SinglyLinkedList_len(l) == l.size

\* faulty variant of insert_at_head: the new node is not linked to the old head
insert_at_head_unlinked(l, value) ==
    [head |-> Len(l.nodes) + 1,
     size |-> l.size + 1,
     nodes |-> Append(l.nodes, [value |-> value, next |-> 0])]

insert_at_head(l, value) ==
    [head |-> Len(l.nodes) + 1,
     size |-> l.size + 1,
     nodes |-> Append(l.nodes, [value |-> value, next |-> l.head])]

\* the while loop of insert_at_tail: the node whose next is None
RECURSIVE insert_at_tail_last(_, _)
insert_at_tail_last(l, cur) ==
    IF l.nodes[cur].next # 0 THEN insert_at_tail_last(l, l.nodes[cur].next) ELSE cur

\* faulty variant of insert_at_tail: the new node becomes the head
insert_at_tail_as_head(l, value) ==
    [head |-> Len(l.nodes) + 1,
     size |-> l.size + 1,
     nodes |-> Append(l.nodes, [value |-> value, next |-> l.head])]

insert_at_tail(l, value) ==
    LET new_node == Len(l.nodes) + 1
        nodes == Append(l.nodes, [value |-> value, next |-> 0])
    IN  IF l.head = 0
        THEN [head |-> new_node, size |-> l.size + 1, nodes |-> nodes]
        ELSE [head |-> l.head,
              size |-> l.size + 1,
              nodes |-> [nodes EXCEPT ![insert_at_tail_last(l, l.head)].next = new_node]]

RECURSIVE SinglyLinkedList_to_list_from(_, _)
SinglyLinkedList_to_list_from(l, cur) ==
    IF cur = 0 THEN <<>>
    ELSE <<l.nodes[cur].value>> \o SinglyLinkedList_to_list_from(l, l.nodes[cur].next)

SinglyLinkedList_to_list(l) == SinglyLinkedList_to_list_from(l, l.head)

ListStart ==
    /\ sll = SinglyLinkedList
    /\ head_inserted = <<>>
    /\ tail_inserted = <<>>

CallInsertAtHead(value) ==
    /\ Len(head_inserted) + Len(tail_inserted) < MaxNodes
    /\ sll' = insert_at_head(sll, value)
    /\ head_inserted' = Append(head_inserted, value)
    /\ UNCHANGED tail_inserted
    /\ UNCHANGED <<codecVars, arrayVars, stackVars, graphVars>>

CallInsertAtTail(value) ==
    /\ Len(head_inserted) + Len(tail_inserted) < MaxNodes
    /\ sll' = insert_at_tail(sll, value)
    /\ tail_inserted' = Append(tail_inserted, value)
    /\ UNCHANGED head_inserted
    /\ UNCHANGED <<codecVars, arrayVars, stackVars, graphVars>>

----------------------------------------------------------------------------
(* Stack *)

Stack == [da |-> DynamicArray(DefaultCapacity)]

Stack_len(s) == DynamicArray_len(s.da)

is_empty(s) == DynamicArray_len(s.da) = 0

\* faulty variant of push: after a pop the item goes one slot above the stale one
push_above_stale(s, item) ==
    IF s.da.size < s.da.capacity - 1 /\ s.da.data[s.da.size + 1] # None
    THEN [s EXCEPT !.da.data[s.da.size + 2] = item, !.da.size = s.da.size + 1]
    ELSE [s EXCEPT !.da = DynamicArray_append(s.da, item)]

push(s, item) == [s EXCEPT !.da = DynamicArray_append(s.da, item)]

\* faulty variant of pop: the size is not decremented
pop_no_shrink(s) ==
    IF is_empty(s)
    THEN [exc |-> "IndexError", val |-> None, stack |-> s]
    ELSE [exc |-> "", val |-> DynamicArray_get(s.da, DynamicArray_len(s.da) - 1).val, stack |-> s]

\* pop: [exc, val, stack after the call]
pop(s) ==
    IF is_empty(s)
    THEN [exc |-> "IndexError", val |-> None, stack |-> s]
    ELSE LET top_item == DynamicArray_get(s.da, DynamicArray_len(s.da) - 1)
         IN  IF top_item.exc # ""
             THEN [exc |-> top_item.exc, val |-> None, stack |-> s]
             ELSE [exc |-> "", val |-> top_item.val,
                   stack |-> [s EXCEPT !.da.size = s.da.size - 1]]

\* faulty variant of peek: the emptiness test is missing
peek_unguarded(s) == DynamicArray_get(s.da, DynamicArray_len(s.da) - 1)

peek(s) ==
    IF is_empty(s) THEN Returned(None) ELSE DynamicArray_get(s.da, DynamicArray_len(s.da) - 1)

NoStackCall == [op |-> "none", args |-> <<>>]

StackStart ==
    /\ stk = Stack
    /\ sret = Returned(None)
    /\ phase = "push"
    /\ pushed = <<>>
    /\ popped = <<>>
    /\ scall = NoStackCall
    /\ lifo = <<>>
    /\ lifo_ret = Returned(None)

CallPush(item) ==
    /\ Stack_len(stk) < MaxStack
    /\ stk' = push(stk, item)
    /\ sret' = Returned(None)
    /\ IF is_empty(stk)
       THEN phase' = "push" /\ pushed' = <<item>> /\ popped' = <<>>
       ELSE IF phase = "push"
            THEN pushed' = Append(pushed, item) /\ UNCHANGED <<phase, popped>>
            ELSE phase' = "mixed" /\ pushed' = <<>> /\ popped' = <<>>
    /\ scall' = [op |-> "push", args |-> <<item>>]
    /\ lifo' = Append(lifo, item)
    /\ lifo_ret' = Returned(None)
    /\ UNCHANGED <<codecVars, arrayVars, graphVars, listVars>>

CallPop ==
    LET r == pop(stk)
    IN  /\ stk' = r.stack
        /\ sret' = [exc |-> r.exc, val |-> r.val]
        /\ IF r.exc = "" /\ phase \in {"push", "pop"}
           THEN phase' = "pop" /\ popped' = Append(popped, r.val) /\ UNCHANGED pushed
           ELSE UNCHANGED <<phase, pushed, popped>>
        /\ scall' = [op |-> "pop", args |-> <<>>]
        /\ lifo' = IF lifo = <<>> THEN lifo ELSE SubSeq(lifo, 1, Len(lifo) - 1)
        /\ lifo_ret' = IF lifo = <<>> THEN Raised("IndexError") ELSE Returned(lifo[Len(lifo)])
        /\ UNCHANGED <<codecVars, arrayVars, graphVars, listVars>>

CallPeek ==
    /\ sret' = peek(stk)
    /\ scall' = [op |-> "peek", args |-> <<>>]
    /\ lifo_ret' = IF lifo = <<>> THEN Returned(None) ELSE Returned(lifo[Len(lifo)])
    /\ UNCHANGED <<stk, phase, pushed, popped, lifo>>
    /\ UNCHANGED <<codecVars, arrayVars, graphVars, listVars>>

----------------------------------------------------------------------------
(* BytePairEncoder *)

\* _get_stats: the loop from index i on (1-based), stats so far
RECURSIVE _get_stats_from(_, _, _)
_get_stats_from(txt, i, stats) ==
    IF i > Len(txt) - 1 THEN stats
    ELSE LET pair == <<txt[i], txt[i + 1]>>
         IN  _get_stats_from(txt, i + 1, DictPut(stats, pair, DictGet(stats, pair, 0) + 1))

_get_stats(txt) == _get_stats_from(txt, 1, <<>>)

\* faulty variant of merge_from: after a merge the scan moves on by one symbol
RECURSIVE merge_from_overlapping(_, _, _)
merge_from_overlapping(txt, i, best_pair) ==
    IF i > Len(txt) THEN <<>>
    ELSE IF i < Len(txt) /\ <<txt[i], txt[i + 1]>> = best_pair
         THEN <<JoinEmpty(best_pair)>> \o merge_from_overlapping(txt, i + 1, best_pair)
         ELSE <<txt[i]>> \o merge_from_overlapping(txt, i + 1, best_pair)

\* the while loop of compress that merges every occurrence of best_pair
RECURSIVE merge_from(_, _, _)
merge_from(txt, i, best_pair) ==
    IF i > Len(txt) THEN <<>>
    ELSE IF i < Len(txt) /\ <<txt[i], txt[i + 1]>> = best_pair
         THEN <<JoinEmpty(best_pair)>> \o merge_from(txt, i + 2, best_pair)
         ELSE <<txt[i]>> \o merge_from(txt, i + 1, best_pair)

\* faulty variant of split_tokens: the else is missing, a split token stays too
RECURSIVE split_tokens_keeps_token(_, _)
split_tokens_keeps_token(toks, pair_str) ==
    IF toks = <<>> THEN <<>>
    ELSE (IF Head(toks) = pair_str THEN ListOfChars(Head(toks)) ELSE <<>>)
         \o <<Head(toks)>>
         \o split_tokens_keeps_token(Tail(toks), pair_str)

\* the inner for loop of decompress: split every token equal to pair_str
RECURSIVE split_tokens(_, _)
split_tokens(toks, pair_str) ==
    IF toks = <<>> THEN <<>>
    ELSE (IF Head(toks) = pair_str THEN ListOfChars(Head(toks)) ELSE <<Head(toks)>>)
         \o split_tokens(Tail(toks), pair_str)

CodecStart ==
    /\ data \in StringsUpTo(Alphabet, MaxLen)
    /\ num_merges \in 0..MaxMerges
    /\ cpc = "compress"
    /\ text = <<>>
    /\ merges_map = <<>>
    /\ rounds = 0
    /\ compressed = <<>>
    /\ tokens = <<>>
    /\ undo = 0
    /\ output = <<>>

CodecIdle ==
    /\ data = <<>>
    /\ num_merges = 0
    /\ cpc = "idle"
    /\ text = <<>>
    /\ merges_map = <<>>
    /\ rounds = 0
    /\ compressed = <<>>
    /\ tokens = <<>>
    /\ undo = 0
    /\ output = <<>>

\* compress, lines 158-159
CompressEnter ==
    /\ cpc = "compress"
    /\ text' = ListOfChars(data)
    /\ merges_map' = <<>>
    /\ rounds' = 0
    /\ cpc' = "merge"
    /\ UNCHANGED <<data, num_merges, compressed, tokens, undo, output>>
    /\ UNCHANGED <<arrayVars, stackVars, graphVars, listVars>>

\* compress, one iteration of the for loop that does not break
CompressMerge ==
    /\ cpc = "merge"
    /\ rounds < num_merges
    /\ _get_stats(text) # <<>>
    /\ LET best_pair == MaxKeyByValue(_get_stats(text))
       IN  /\ merges_map' = Append(merges_map, JoinEmpty(best_pair))
           /\ text' = merge_from(text, 1, best_pair)
    /\ rounds' = rounds + 1
    /\ UNCHANGED <<data, num_merges, cpc, compressed, tokens, undo, output>>
    /\ UNCHANGED <<arrayVars, stackVars, graphVars, listVars>>

\* compress, the loop ends (exhausted, or break on empty stats) and returns
CompressReturn ==
    /\ cpc = "merge"
    /\ rounds = num_merges \/ _get_stats(text) = <<>>
    /\ compressed' = JoinSpace(text)
    /\ cpc' = "decompress"
    /\ UNCHANGED <<data, num_merges, text, merges_map, rounds, tokens, undo, output>>
    /\ UNCHANGED <<arrayVars, stackVars, graphVars, listVars>>

\* decompress, line 189
DecompressEnter ==
    /\ cpc = "decompress"
    /\ tokens' = SplitSpace(compressed)
    /\ undo' = Len(merges_map)
    /\ cpc' = "undo"
    /\ UNCHANGED <<data, num_merges, text, merges_map, rounds, compressed, output>>
    /\ UNCHANGED <<arrayVars, stackVars, graphVars, listVars>>

\* decompress, line 189, called with the string compress returned and a merge
\* history of the caller's choosing
DecompressEnterWith(history) ==
    /\ cpc = "decompress"
    /\ merges_map' = history
    /\ tokens' = SplitSpace(compressed)
    /\ undo' = Len(history)
    /\ cpc' = "undo"
    /\ UNCHANGED <<data, num_merges, text, rounds, compressed, output>>
    /\ UNCHANGED <<arrayVars, stackVars, graphVars, listVars>>

\* decompress, one iteration of the loop over reversed(merges_map)
DecompressUndo ==
    /\ cpc = "undo"
    /\ undo > 0
    /\ tokens' = split_tokens(tokens, merges_map[undo])
    /\ undo' = undo - 1
    /\ UNCHANGED <<data, num_merges, cpc, text, merges_map, rounds, compressed, output>>
    /\ UNCHANGED <<arrayVars, stackVars, graphVars, listVars>>

\* decompress, line 198
DecompressReturn ==
    /\ cpc = "undo"
    /\ undo = 0
    /\ output' = JoinEmpty(tokens)
    /\ cpc' = "done"
    /\ UNCHANGED <<data, num_merges, text, merges_map, rounds, compressed, tokens, undo>>
    /\ UNCHANGED <<arrayVars, stackVars, graphVars, listVars>>

CodecNext ==
    \/ CompressEnter
    \/ CompressMerge
    \/ CompressReturn
    \/ DecompressEnter
    \/ DecompressUndo
    \/ DecompressReturn

----------------------------------------------------------------------------
(* SocialNetwork.  A user dict is the record [id, name, posts, followers].  *)
(* A method that changes the graph gives [exc, users]: the exception it      *)
(* raised, if any, and the user table after the call.                        *)

\* a.get(i) for i in range(len(a)), each a result of DynamicArray_get
GetAll(a) == [i \in 1..DynamicArray_len(a) |-> DynamicArray_get(a, i - 1)]

AllReturned(rs) == \A i \in 1..Len(rs) : rs[i].exc = ""

ValuesOf(rs) == [i \in 1..Len(rs) |-> rs[i].val]

ElementsOf(list) == {list[i] : i \in 1..Len(list)}

SocialNetwork == DynamicArray(DefaultCapacity)

\* faulty variant of find_user_index: the loop runs over range(len(users) + 1)
RECURSIVE find_user_index_overrun_from(_, _, _)
find_user_index_overrun_from(us, user_id, i) ==
    IF i > DynamicArray_len(us) THEN Returned(-1)
    ELSE LET u == DynamicArray_get(us, i)
         IN  IF u.exc # "" THEN Raised(u.exc)
             ELSE IF u.val.id = user_id THEN Returned(i)
             ELSE find_user_index_overrun_from(us, user_id, i + 1)

find_user_index_overrun(us, user_id) == find_user_index_overrun_from(us, user_id, 0)

\* find_user_index: the loop from index i on
RECURSIVE find_user_index_from(_, _, _)
find_user_index_from(us, user_id, i) ==
    IF i >= DynamicArray_len(us) THEN Returned(-1)
    ELSE LET u == DynamicArray_get(us, i)
         IN  IF u.exc # "" THEN Raised(u.exc)
             ELSE IF u.val.id = user_id THEN Returned(i)
             ELSE find_user_index_from(us, user_id, i + 1)

find_user_index(us, user_id) == find_user_index_from(us, user_id, 0)

\* faulty variant of add_user: a repeated id overwrites the stored name
add_user_last_write_wins(us, user_id, name) ==
    LET found == find_user_index(us, user_id)
    IN  IF found.exc # "" THEN [exc |-> found.exc, users |-> us]
        ELSE IF found.val # -1
             THEN [exc |-> "", users |-> [us EXCEPT !.data[found.val + 1].name = name]]
        ELSE LET user_dict == [id |-> user_id,
                               name |-> name,
                               posts |-> SinglyLinkedList,
                               followers |-> DynamicArray(DefaultCapacity)]
             IN  [exc |-> "", users |-> DynamicArray_append(us, user_dict)]

add_user(us, user_id, name) ==
    LET found == find_user_index(us, user_id)
    IN  IF found.exc # "" THEN [exc |-> found.exc, users |-> us]
        ELSE IF found.val # -1 THEN [exc |-> "", users |-> us]
        ELSE LET user_dict == [id |-> user_id,
                               name |-> name,
                               posts |-> SinglyLinkedList,
                               followers |-> DynamicArray(DefaultCapacity)]
             IN  [exc |-> "", users |-> DynamicArray_append(us, user_dict)]

\* faulty variant of already_follower: the loop misses the last entry
already_follower_misses_last(followers, follower_id) ==
    IF \E j \in 1..(DynamicArray_len(followers) - 1) : followers.data[j] = follower_id
    THEN "yes"
    ELSE "no"

\* add_follower, the loop of lines 297-299: follower_id is already recorded
\* ("yes"), is not ("no"), or a get raised
already_follower(followers, follower_id) ==
    LET gets == GetAll(followers)
    IN  IF \E j \in 1..Len(gets) :
              /\ gets[j].exc = "" /\ gets[j].val = follower_id
              /\ \A k \in 1..(j - 1) : gets[k].exc = ""
        THEN "yes"
        ELSE IF AllReturned(gets) THEN "no" ELSE "IndexError"

add_follower(us, user_id, follower_id) ==
    LET idx == find_user_index(us, user_id)
    IN  IF idx.exc # "" THEN [exc |-> idx.exc, users |-> us]
        ELSE IF idx.val = -1 THEN [exc |-> "", users |-> us]
        ELSE LET user_data == DynamicArray_get(us, idx.val)
             IN  IF user_data.exc # "" THEN [exc |-> user_data.exc, users |-> us]
                 ELSE LET seen == already_follower(user_data.val.followers, follower_id)
                      IN  IF seen = "yes" THEN [exc |-> "", users |-> us]
                          ELSE IF seen # "no" THEN [exc |-> seen, users |-> us]
                          ELSE [exc |-> "",
                                users |-> [us EXCEPT !.data[idx.val + 1].followers =
                                                         DynamicArray_append(@, follower_id)]]

\* faulty variant of add_post: the post goes into a fresh list that replaces the old one
add_post_fresh_list(us, user_id, body, topics) ==
    LET idx == find_user_index(us, user_id)
    IN  IF idx.exc # "" THEN [exc |-> idx.exc, users |-> us]
        ELSE IF idx.val = -1 THEN [exc |-> "", users |-> us]
        ELSE [exc |-> "",
              users |-> [us EXCEPT !.data[idx.val + 1].posts =
                             insert_at_tail(SinglyLinkedList, [body |-> body, topics |-> topics])]]

add_post(us, user_id, body, topics) ==
    LET idx == find_user_index(us, user_id)
    IN  IF idx.exc # "" THEN [exc |-> idx.exc, users |-> us]
        ELSE IF idx.val = -1 THEN [exc |-> "", users |-> us]
        ELSE LET user_data == DynamicArray_get(us, idx.val)
             IN  IF user_data.exc # "" THEN [exc |-> user_data.exc, users |-> us]
                 ELSE [exc |-> "",
                       users |-> [us EXCEPT !.data[idx.val + 1].posts =
                                      insert_at_tail(@, [body |-> body, topics |-> topics])]]

\* find_most_active, lines 381-383: every registered id gets the count 0
RECURSIVE init_counts(_, _, _)
init_counts(ul, i, following_count) ==
    IF i > Len(ul) THEN following_count
    ELSE init_counts(ul, i + 1, DictPut(following_count, ul[i].id, 0))

\* find_most_active, lines 389-392: one user's follower list, from entry j on
RECURSIVE count_followers(_, _, _)
count_followers(fl, j, following_count) ==
    IF j > Len(fl) THEN following_count
    ELSE count_followers(fl, j + 1,
             DictPut(following_count, fl[j], DictGet(following_count, fl[j], 0) + 1))

\* find_most_active, lines 385-392: every user's follower list, from user i on
RECURSIVE count_following(_, _, _)
count_following(fls, i, following_count) ==
    IF i > Len(fls) THEN following_count
    ELSE count_following(fls, i + 1, count_followers(fls[i], 1, following_count))

\* find_most_active, lines 395-400: the scan of following_count.items()
RECURSIVE max_count(_, _, _, _)
max_count(following_count, i, max_user, max_val) ==
    IF i > Len(following_count) THEN [user |-> max_user, val |-> max_val]
    ELSE IF following_count[i].val > max_val
         THEN max_count(following_count, i + 1, following_count[i].key, following_count[i].val)
         ELSE max_count(following_count, i + 1, max_user, max_val)

find_most_active(us) ==
    LET gets == GetAll(us)
    IN  IF ~AllReturned(gets) THEN Raised("IndexError")
        ELSE
        LET ul == ValuesOf(gets)
            fgets == [i \in 1..Len(ul) |-> GetAll(ul[i].followers)]
        IN  IF \E i \in 1..Len(ul) : ~AllReturned(fgets[i]) THEN Raised("IndexError")
            ELSE
            LET fls == [i \in 1..Len(ul) |-> ValuesOf(fgets[i])]
                following_count == count_following(fls, 1, init_counts(ul, 1, <<>>))
                max == max_count(following_count, 1, None, -1)
                idx == find_user_index(us, max.user)
            IN  IF max.user = None THEN Returned(<<None, None, 0>>)
                ELSE IF idx.exc # "" THEN Raised(idx.exc)
                ELSE IF idx.val = -1 THEN Returned(<<None, None, 0>>)
                ELSE IF DynamicArray_get(us, idx.val).exc # "" THEN Raised(DynamicArray_get(us, idx.val).exc)
                ELSE Returned(<<max.user, DynamicArray_get(us, idx.val).val.name, max.val>>)

\* faulty variant of find_most_influencer: the comparison is >=, so the last user wins a tie
RECURSIVE find_most_influencer_last_wins_from(_, _, _, _, _)
find_most_influencer_last_wins_from(ul, i, max_user, max_name, max_val) ==
    IF i > Len(ul) THEN <<max_user, max_name, max_val>>
    ELSE IF DynamicArray_len(ul[i].followers) >= max_val
         THEN find_most_influencer_last_wins_from(ul, i + 1, ul[i].id, ul[i].name,
                                         DynamicArray_len(ul[i].followers))
         ELSE find_most_influencer_last_wins_from(ul, i + 1, max_user, max_name, max_val)

find_most_influencer_last_wins(us) ==
    Returned(find_most_influencer_last_wins_from(DynamicArray_to_list(us), 1, None, None, -1))

\* find_most_influencer: the loop from user i on (1-based)
RECURSIVE find_most_influencer_from(_, _, _, _, _)
find_most_influencer_from(ul, i, max_user, max_name, max_val) ==
    IF i > Len(ul) THEN <<max_user, max_name, max_val>>
    ELSE IF DynamicArray_len(ul[i].followers) > max_val
         THEN find_most_influencer_from(ul, i + 1, ul[i].id, ul[i].name, DynamicArray_len(ul[i].followers))
         ELSE find_most_influencer_from(ul, i + 1, max_user, max_name, max_val)

find_most_influencer(us) ==
    LET gets == GetAll(us)
    IN  IF ~AllReturned(gets) THEN Raised("IndexError")
        ELSE Returned(find_most_influencer_from(ValuesOf(gets), 1, None, None, -1))

\* mutual_followers, the loop over user_ids[1:], from entry i on (1-based)
RECURSIVE mutual_followers_from(_, _, _, _)
mutual_followers_from(us, user_ids, i, mutual_set) ==
    IF i > Len(user_ids) THEN Returned(mutual_set)
    ELSE LET idx == find_user_index(us, user_ids[i])
         IN  IF idx.exc # "" THEN Raised(idx.exc)
             ELSE IF idx.val = -1 THEN Returned({})
             ELSE IF DynamicArray_get(us, idx.val).exc # "" THEN Raised(DynamicArray_get(us, idx.val).exc)
             ELSE LET this_set == ElementsOf(DynamicArray_to_list(DynamicArray_get(us, idx.val).val.followers))
                  IN  mutual_followers_from(us, user_ids, i + 1, mutual_set \cap this_set)

\* faulty variant of mutual_followers: only the first listed user is looked at
mutual_followers_first_only(us, user_ids) ==
    IF user_ids = <<>> THEN Returned({})
    ELSE LET first_user_idx == find_user_index(us, user_ids[1])
         IN  IF first_user_idx.exc # "" THEN Raised(first_user_idx.exc)
             ELSE IF first_user_idx.val = -1 THEN Returned({})
             ELSE Returned(ElementsOf(DynamicArray_to_list(DynamicArray_get(us, first_user_idx.val).val.followers)))

mutual_followers(us, user_ids) ==
    IF user_ids = <<>> THEN Returned({})
    ELSE LET first_user_idx == find_user_index(us, user_ids[1])
         IN  IF first_user_idx.exc # "" THEN Raised(first_user_idx.exc)
             ELSE IF first_user_idx.val = -1 THEN Returned({})
             ELSE IF DynamicArray_get(us, first_user_idx.val).exc # ""
                  THEN Raised(DynamicArray_get(us, first_user_idx.val).exc)
             ELSE mutual_followers_from(us, user_ids, 2,
                      ElementsOf(DynamicArray_to_list(DynamicArray_get(us, first_user_idx.val).val.followers)))

\* faulty variant of suggestions_via: the accounts already followed are not filtered out
suggestions_via_keeps_followed(us, following_user, currently_follows, user_id) ==
    LET fidx == find_user_index(us, following_user)
    IN  IF fidx.exc # "" THEN Raised(fidx.exc)
        ELSE IF fidx.val = -1 THEN Returned({})
        ELSE LET flwr_list == DynamicArray_to_list(DynamicArray_get(us, fidx.val).val.followers)
             IN  Returned({f \in ElementsOf(flwr_list) : f # user_id})

\* suggest_follows, lines 466-474: the followers of one followed account that
\* are kept, a set; or the exception a call raised
suggestions_via(us, following_user, currently_follows, user_id) ==
    LET fidx == find_user_index(us, following_user)
    IN  IF fidx.exc # "" THEN Raised(fidx.exc)
        ELSE IF fidx.val = -1 THEN Returned({})
        ELSE IF DynamicArray_get(us, fidx.val).exc # "" THEN Raised(DynamicArray_get(us, fidx.val).exc)
        ELSE LET flwr_list == DynamicArray_to_list(DynamicArray_get(us, fidx.val).val.followers)
             IN  Returned({f \in ElementsOf(flwr_list) :
                              f \notin currently_follows /\ f # user_id})

suggest_follows(us, user_id) ==
    LET idx == find_user_index(us, user_id)
        gets == GetAll(us)
    IN  IF idx.exc # "" THEN Raised(idx.exc)
        ELSE IF idx.val = -1 THEN Returned({})
        ELSE IF ~AllReturned(gets) THEN Raised("IndexError")
        ELSE
        LET ul == ValuesOf(gets)
            currently_follows ==
                {ul[i].id : i \in {k \in 1..Len(ul) :
                                      user_id \in ElementsOf(DynamicArray_to_list(ul[k].followers))}}
            via == [u \in currently_follows |->
                       suggestions_via(us, u, currently_follows, user_id)]
        IN  IF \E u \in currently_follows : via[u].exc # ""
            THEN Raised("IndexError")
            ELSE Returned(UNION {via[u].val : u \in currently_follows})

\* search_posts_word: the while loop over the posts of one user, from node p on
RECURSIVE search_posts_word_posts(_, _, _, _, _)
search_posts_word_posts(l, p, uid, name, w_lower) ==
    IF p = 0 THEN <<>>
    ELSE LET body_text == l.nodes[p].value.body
         IN  (IF str_in(w_lower, str_lower(body_text))
              THEN << <<uid, name, body_text>> >> ELSE <<>>)
             \o search_posts_word_posts(l, l.nodes[p].next, uid, name, w_lower)

\* search_posts_word: the loop over the users, from user i on (1-based)
RECURSIVE search_posts_word_from(_, _, _)
search_posts_word_from(ul, i, w_lower) ==
    IF i > Len(ul) THEN <<>>
    ELSE search_posts_word_posts(ul[i].posts, ul[i].posts.head, ul[i].id, ul[i].name, w_lower)
         \o search_posts_word_from(ul, i + 1, w_lower)

search_posts_word(us, word) ==
    LET gets == GetAll(us)
    IN  IF ~AllReturned(gets) THEN Raised("IndexError")
        ELSE Returned(search_posts_word_from(ValuesOf(gets), 1, str_lower(word)))

\* faulty variant of topic_matches: the stored topic is not lower-cased
topic_matches_stored_case(t_lower, topics) ==
    \E k \in 1..Len(topics) : t_lower = topics[k]

\* any(t_lower == x.lower() for x in topics)
topic_matches(t_lower, topics) ==
    \E k \in 1..Len(topics) : t_lower = str_lower(topics[k])

\* search_posts_topic: the while loop over the posts of one user, from node p on
RECURSIVE search_posts_topic_posts(_, _, _, _, _)
search_posts_topic_posts(l, p, uid, name, t_lower) ==
    IF p = 0 THEN <<>>
    ELSE (IF topic_matches(t_lower, l.nodes[p].value.topics)
          THEN << <<uid, name, l.nodes[p].value.body>> >> ELSE <<>>)
         \o search_posts_topic_posts(l, l.nodes[p].next, uid, name, t_lower)

\* search_posts_topic: the loop over the users, from user i on (1-based)
RECURSIVE search_posts_topic_from(_, _, _)
search_posts_topic_from(ul, i, t_lower) ==
    IF i > Len(ul) THEN <<>>
    ELSE search_posts_topic_posts(ul[i].posts, ul[i].posts.head, ul[i].id, ul[i].name, t_lower)
         \o search_posts_topic_from(ul, i + 1, t_lower)

search_posts_topic(us, topic) ==
    LET gets == GetAll(us)
    IN  IF ~AllReturned(gets) THEN Raised("IndexError")
        ELSE Returned(search_posts_topic_from(ValuesOf(gets), 1, str_lower(topic)))

\* users + follower entries + posts
RECURSIVE GraphSizeFrom(_, _)
GraphSizeFrom(ul, i) ==
    IF i > Len(ul) THEN 0
    ELSE 1 + DynamicArray_len(ul[i].followers) + SinglyLinkedList_len(ul[i].posts) + GraphSizeFrom(ul, i + 1)

GraphSize(us) == GraphSizeFrom(DynamicArray_to_list(us), 1)

NoCall == [op |-> "none", args |-> <<>>]

GraphStart ==
    /\ users = SocialNetwork
    /\ gcall = NoCall
    /\ gret = Returned(None)
    /\ posted = [id \in Ids |-> <<>>]

CallAddUser(user_id, name) ==
    LET r == add_user(users, user_id, name)
    IN  /\ gcall = NoCall
        /\ GraphSize(r.users) <= MaxGraph
        /\ users' = r.users
        /\ gcall' = [op |-> "add_user", args |-> <<user_id, name>>]
        /\ gret' = [exc |-> r.exc, val |-> None]
        /\ UNCHANGED posted
        /\ UNCHANGED <<codecVars, arrayVars, stackVars, listVars>>

CallAddFollower(user_id, follower_id) ==
    LET r == add_follower(users, user_id, follower_id)
    IN  /\ gcall = NoCall
        /\ GraphSize(r.users) <= MaxGraph
        /\ users' = r.users
        /\ gcall' = [op |-> "add_follower", args |-> <<user_id, follower_id>>]
        /\ gret' = [exc |-> r.exc, val |-> None]
        /\ UNCHANGED posted
        /\ UNCHANGED <<codecVars, arrayVars, stackVars, listVars>>

CallAddPost(user_id, post) ==
    LET r == add_post(users, user_id, post.body, post.topics)
    IN  /\ gcall = NoCall
        /\ GraphSize(r.users) <= MaxGraph
        /\ users' = r.users
        /\ gcall' = [op |-> "add_post", args |-> <<user_id, post>>]
        /\ gret' = [exc |-> r.exc, val |-> None]
        /\ posted' = IF \E i \in 1..users.size : users.data[i].id = user_id
                     THEN [posted EXCEPT ![user_id] = Append(@, post)]
                     ELSE posted
        /\ UNCHANGED <<codecVars, arrayVars, stackVars, listVars>>

CallFindUserIndex(user_id) ==
    /\ gcall = NoCall
    /\ gcall' = [op |-> "find_user_index", args |-> <<user_id>>]
    /\ gret' = find_user_index(users, user_id)
    /\ UNCHANGED <<users, posted, codecVars, arrayVars, stackVars, listVars>>

CallFindMostActive ==
    /\ gcall = NoCall
    /\ gcall' = [op |-> "find_most_active", args |-> <<>>]
    /\ gret' = find_most_active(users)
    /\ UNCHANGED <<users, posted, codecVars, arrayVars, stackVars, listVars>>

CallFindMostInfluencer ==
    /\ gcall = NoCall
    /\ gcall' = [op |-> "find_most_influencer", args |-> <<>>]
    /\ gret' = find_most_influencer(users)
    /\ UNCHANGED <<users, posted, codecVars, arrayVars, stackVars, listVars>>

CallMutualFollowers(user_ids) ==
    /\ gcall = NoCall
    /\ gcall' = [op |-> "mutual_followers", args |-> <<user_ids>>]
    /\ gret' = mutual_followers(users, user_ids)
    /\ UNCHANGED <<users, posted, codecVars, arrayVars, stackVars, listVars>>

CallSuggestFollows(user_id) ==
    /\ gcall = NoCall
    /\ gcall' = [op |-> "suggest_follows", args |-> <<user_id>>]
    /\ gret' = suggest_follows(users, user_id)
    /\ UNCHANGED <<users, posted, codecVars, arrayVars, stackVars, listVars>>

CallSearchPostsWord(word) ==
    /\ gcall = NoCall
    /\ gcall' = [op |-> "search_posts_word", args |-> <<word>>]
    /\ gret' = search_posts_word(users, word)
    /\ UNCHANGED <<users, posted, codecVars, arrayVars, stackVars, listVars>>

CallSearchPostsTopic(topic) ==
    /\ gcall = NoCall
    /\ gcall' = [op |-> "search_posts_topic", args |-> <<topic>>]
    /\ gret' = search_posts_topic(users, topic)
    /\ UNCHANGED <<users, posted, codecVars, arrayVars, stackVars, listVars>>

\* the caller takes the result; the graph is ready for the next call
GraphReturn ==
    /\ gcall # NoCall
    /\ gcall' = NoCall
    /\ gret' = Returned(None)
    /\ UNCHANGED <<users, posted, codecVars, arrayVars, stackVars, listVars>>

GraphNext ==
    \/ \E user_id \in Ids, name \in Names : CallAddUser(user_id, name)
    \/ \E user_id \in Ids, follower_id \in Ids : CallAddFollower(user_id, follower_id)
    \/ \E user_id \in Ids, post \in Posts : CallAddPost(user_id, post)
    \/ \E user_id \in Ids : CallFindUserIndex(user_id)
    \/ CallFindMostActive
    \/ CallFindMostInfluencer
    \/ \E user_ids \in IdLists : CallMutualFollowers(user_ids)
    \/ \E user_id \in Ids : CallSuggestFollows(user_id)
    \/ GraphReturn

----------------------------------------------------------------------------
(* Specifications: one per component, the other components idle *)

ArrayIdle ==
    /\ da = DynamicArray(DefaultCapacity)
    /\ appended = <<>>
    /\ written = <<>>
    /\ acall = [op |-> "idle", args |-> <<>>]
    /\ aret = Returned(None)

StackIdle ==
    /\ stk = Stack
    /\ sret = Returned(None)
    /\ phase = "idle"
    /\ pushed = <<>>
    /\ popped = <<>>
    /\ scall = [op |-> "idle", args |-> <<>>]
    /\ lifo = <<>>
    /\ lifo_ret = Returned(None)

GraphIdle ==
    /\ users = SocialNetwork
    /\ gcall = [op |-> "idle", args |-> <<>>]
    /\ gret = Returned(None)
    /\ posted = [id \in Ids |-> <<>>]

ListIdle ==
    /\ sll = SinglyLinkedList
    /\ head_inserted = <<>>
    /\ tail_inserted = <<>>

CodecInit == CodecStart /\ ArrayIdle /\ StackIdle /\ GraphIdle /\ ListIdle

SpecCodec == CodecInit /\ [][CodecNext]_vars

\* compress, then decompress of its string with any merge history
AnyHistoryInit == CodecStart /\ ArrayIdle /\ StackIdle /\ GraphIdle /\ ListIdle

AnyHistoryNext ==
    \/ CompressEnter
    \/ CompressMerge
    \/ CompressReturn
    \/ \E history \in StringsUpTo(HistoryTokens, MaxHistory) : DecompressEnterWith(history)
    \/ DecompressUndo
    \/ DecompressReturn

SpecAnyHistory == AnyHistoryInit /\ [][AnyHistoryNext]_vars

ArrayInit == ArrayStart /\ CodecIdle /\ StackIdle /\ GraphIdle /\ ListIdle

ArrayNext == \E value \in Values : CallAppend(value)

SpecArray == ArrayInit /\ [][ArrayNext]_vars

\* an array of any initial capacity under append, get and set
ArrayOpsInit == ArrayStartWithCapacity /\ CodecIdle /\ StackIdle /\ GraphIdle /\ ListIdle

ArrayOpsNext ==
    \/ \E value \in Fill : CallAppend(value)
    \/ \E index \in Indexes : CallGet(index)
    \/ \E index \in Indexes, value \in Values : CallSet(index, value)

SpecArrayOps == ArrayOpsInit /\ [][ArrayOpsNext]_vars

StackInit == StackStart /\ CodecIdle /\ ArrayIdle /\ GraphIdle /\ ListIdle

StackNext ==
    \/ \E item \in Values : CallPush(item)
    \/ CallPop
    \/ CallPeek

SpecStack == StackInit /\ [][StackNext]_vars

ListInit == ListStart /\ CodecIdle /\ ArrayIdle /\ StackIdle /\ GraphIdle

ListNext ==
    \/ \E value \in Values : CallInsertAtHead(value)
    \/ \E value \in Values : CallInsertAtTail(value)

SpecList == ListInit /\ [][ListNext]_vars

GraphInit == GraphStart /\ CodecIdle /\ ArrayIdle /\ StackIdle /\ ListIdle

SpecGraph == GraphInit /\ [][GraphNext]_vars

\* the graph under add_user, add_post and the two post searches
SearchInit == GraphStart /\ CodecIdle /\ ArrayIdle /\ StackIdle /\ ListIdle

SearchNext ==
    \/ \E user_id \in Ids, name \in Names : CallAddUser(user_id, name)
    \/ \E user_id \in Ids, post \in SearchPosts : CallAddPost(user_id, post)
    \/ \E word \in Words : CallSearchPostsWord(word)
    \/ \E topic \in Topics : CallSearchPostsTopic(topic)
    \/ GraphReturn

SpecSearch == SearchInit /\ [][SearchNext]_vars

\* the graph under its three mutators, with posts that differ from one another
WritesInit == GraphStart /\ CodecIdle /\ ArrayIdle /\ StackIdle /\ ListIdle

WritesNext ==
    \/ \E user_id \in Ids, name \in Names : CallAddUser(user_id, name)
    \/ \E user_id \in Ids, follower_id \in Ids : CallAddFollower(user_id, follower_id)
    \/ \E user_id \in Ids, post \in TaggedPosts : CallAddPost(user_id, post)
    \/ GraphReturn

SpecWrites == WritesInit /\ [][WritesNext]_vars

----------------
(* C1: decompress(compress(s, k)) returns s, for every string s over the    *)
(* alphabet and every k >= 0.  (The symbols of s are single characters and  *)
(* every merge token has at least two, so no symbol equals a merge token.)  *)
C1_RoundTrip == cpc = "done" => output = data

(* C2: after any sequence of appends on a default-constructed DynamicArray, *)
(* 0 <= size <= capacity, and the elements at the indices below size are    *)
(* exactly the values appended, in order.                                    *)
C2_GrowthInvariant ==
    /\ 0 <= da.size
    /\ da.size <= da.capacity
    /\ da.size = Len(appended)
    /\ \A i \in 0..(da.size - 1) : DynamicArray_get(da, i) = Returned(appended[i + 1])

\* five appends went through both resizes, 2 -> 4 -> 8
C2_Witness == da.capacity = 4 * DefaultCapacity /\ da.size > 2 * DefaultCapacity

(* C3: n pushes on an empty stack followed by pops: the pops return the     *)
(* pushed values last first, and after n pops the stack is empty.           *)
C3_StackLIFO ==
    phase = "pop" =>
        /\ Len(popped) <= Len(pushed)
        /\ \A j \in 1..Len(popped) : popped[j] = pushed[Len(pushed) - j + 1]
        /\ Len(popped) = Len(pushed) => is_empty(stk) /\ Stack_len(stk) = 0

\* more pushes than the initial capacity, then as many pops
C3_Witness ==
    /\ phase = "pop"
    /\ Len(pushed) > DefaultCapacity
    /\ Len(popped) = Len(pushed)
    /\ stk.da.capacity > DefaultCapacity

(* C11: get(i) and set(i, v) raise the out-of-range error exactly when      *)
(* i < 0 or i >= size, and then size, capacity and every slot are as before; *)
(* for a valid i, set changes slot i only and get returns the value last     *)
(* written at i.                                                             *)
C11_GetSetBounds ==
    [][LET i == acall'.args[1]
           out == i < 0 \/ i >= da.size
       IN  /\ acall'.op = "get" =>
                /\ da' = da
                /\ IF out THEN aret'.exc = "IndexError"
                          ELSE aret' = Returned(written[i + 1])
           /\ acall'.op = "set" =>
                IF out
                THEN aret'.exc = "IndexError" /\ da' = da
                ELSE /\ aret'.exc = ""
                     /\ da'.size = da.size
                     /\ da'.capacity = da.capacity
                     /\ da'.data[i + 1] = acall'.args[2]
                     /\ \A k \in DOMAIN da.data : k # i + 1 => da'.data[k] = da.data[k]
                     /\ DOMAIN da'.data = DOMAIN da.data]_vars

\* a get that returned a value which a set, not the append, wrote at that index,
\* in an array that has been resized
C11_Witness ==
    /\ acall.op = "get"
    /\ aret.exc = ""
    /\ aret.val = written[acall.args[1] + 1]
    /\ written[acall.args[1] + 1] # appended[acall.args[1] + 1]
    /\ da.capacity > MaxCapacity

(* C12: on an empty stack, fresh or emptied by pops, pop raises the          *)
(* empty-container error and leaves the stack as it was, of size 0; peek     *)
(* returns None, raises nothing and changes nothing.                         *)
C12_EmptyStack ==
    [][lifo = <<>> =>
          /\ scall'.op = "pop" =>
                /\ sret' = Raised("IndexError")
                /\ stk' = stk
                /\ Stack_len(stk') = 0
          /\ scall'.op = "peek" =>
                /\ sret' = Returned(None)
                /\ stk' = stk]_vars

\* a pop that raised on a stack which had grown and was emptied by pops
C12_Witness ==
    /\ scall.op = "pop"
    /\ sret.exc = "IndexError"
    /\ lifo = <<>>
    /\ stk.da.capacity > DefaultCapacity

(* C17: under any interleaving of push, pop and peek the stack answers as    *)
(* the abstract last-in-first-out sequence does: the result of every call,   *)
(* is_empty and len agree with it, the slots below size hold its elements,   *)
(* and no bounds-checked get reaches a slot at or above size, where popped   *)
(* values remain until a push overwrites them.                               *)
C17_StackRefinesLifo ==
    /\ sret = lifo_ret
    /\ Stack_len(stk) = Len(lifo)
    /\ is_empty(stk) <=> lifo = <<>>
    /\ \A i \in 0..(Len(lifo) - 1) : DynamicArray_get(stk.da, i) = Returned(lifo[i + 1])
    /\ \A i \in Len(lifo)..stk.da.capacity : DynamicArray_get(stk.da, i).exc = "IndexError"

\* a push that followed pops on a grown stack, with a popped value still in
\* the slot above the top
C17_Witness ==
    /\ scall.op = "push"
    /\ phase = "mixed"
    /\ stk.da.capacity > DefaultCapacity
    /\ Stack_len(stk) < stk.da.capacity
    /\ stk.da.data[Stack_len(stk) + 1] # None
    /\ stk.da.data[Stack_len(stk) + 1] # scall.args[1]

\* two characters are the same letter, whatever their case
SameLetter(c, d) == c = d \/ <<c, d>> \in CasePairs \/ <<d, c>> \in CasePairs

SameText(s, t) == Len(s) = Len(t) /\ \A j \in 1..Len(s) : SameLetter(s[j], t[j])

BodyContains(post, word) ==
    \E k \in 0..(Len(post.body) - Len(word)) :
        SameText(SubSeq(post.body, k + 1, k + Len(word)), word)

HasTopic(post, topic) == \E k \in 1..Len(post.topics) : SameText(post.topics[k], topic)

\* the triples of the posts of ps picked by Match(post), in the order of ps
RECURSIVE TriplesOf(_, _, _, _)
TriplesOf(Match(_), id, name, ps) ==
    IF ps = <<>> THEN <<>>
    ELSE (IF Match(Head(ps)) THEN << <<id, name, Head(ps).body>> >> ELSE <<>>)
         \o TriplesOf(Match, id, name, Tail(ps))

\* user-table order, then, per user, the order of the add_post calls
RECURSIVE ExpectedTriples(_, _)
ExpectedTriples(Match(_), i) ==
    IF i > users.size THEN <<>>
    ELSE TriplesOf(Match, users.data[i].id, users.data[i].name, posted[users.data[i].id])
         \o ExpectedTriples(Match, i + 1)

C18_DoublingGrowth ==
    [][acall'.op = "append" =>
          /\ aret'.exc = ""
          /\ da'.size = da.size + 1
          /\ IF da.size = da.capacity
             THEN da'.capacity = 2 * da.capacity /\ Len(da'.data) = da'.capacity
             ELSE da'.capacity = da.capacity /\ Len(da'.data) = Len(da.data)]_vars

----------------------------------------------------------------------------
(* The graph as the claims speak of it *)

UserTable == DynamicArray_to_list(users)

RegisteredIds == {UserTable[i].id : i \in 1..Len(UserTable)}

\* the follower list of the i-th user of the table, and of a registered id
FollowerList(i) == DynamicArray_to_list(UserTable[i].followers)

FollowerSet(id) ==
    UNION {ElementsOf(FollowerList(i)) : i \in {k \in 1..Len(UserTable) : UserTable[k].id = id}}

\* the accounts id follows: the users whose follower list contains id
Follows(id) == {v \in RegisteredIds : id \in FollowerSet(v)}

OutDegree(id) == Cardinality(Follows(id))

QueryOps == {"find_user_index", "find_most_active", "find_most_influencer",
             "mutual_followers", "suggest_follows"}

(* C4: no two entries of the user table share an id, and no follower list   *)
(* holds the same id twice, whatever add_user, add_follower and add_post     *)
(* calls were made.                                                          *)
C4_GraphUnique ==
    /\ \A i, j \in 1..Len(UserTable) : i # j => UserTable[i].id # UserTable[j].id
    /\ \A i \in 1..Len(UserTable) :
           \A j, k \in 1..Len(FollowerList(i)) :
               j # k => FollowerList(i)[j] # FollowerList(i)[k]

\* add_follower was just called with a follower recorded earlier, not last, in
\* the list of a registered user: a repeated add
C4_Witness ==
    /\ gcall.op = "add_follower"
    /\ \E i \in 1..Len(UserTable) :
           /\ UserTable[i].id = gcall.args[1]
           /\ Len(FollowerList(i)) >= 2
           /\ FollowerList(i)[1] = gcall.args[2]
    /\ Len(UserTable) >= 2

(* C5: add_user(id, name2) on a graph that already contains id leaves the   *)
(* whole graph as it was: the table, and every user's name, posts and        *)
(* followers.                                                                *)
C5_IdempotentAddUser ==
    [][(/\ gcall = NoCall
        /\ gcall'.op = "add_user"
        /\ gcall'.args[1] \in RegisteredIds) => (users' = users /\ gret'.exc = "")]_vars

\* add_user was just called with a name other than the stored one, on a user
\* that has followers and posts
C5_Witness ==
    /\ gcall.op = "add_user"
    /\ \E i \in 1..Len(UserTable) :
           /\ UserTable[i].id = gcall.args[1]
           /\ UserTable[i].name # gcall.args[2]
           /\ Len(FollowerList(i)) > 0
           /\ SinglyLinkedList_len(UserTable[i].posts) > 0

(* C6: for a non-empty list of registered ids, mutual_followers returns      *)
(* exactly the intersection of the follower lists of the listed users; so    *)
(* mutual_followers([a]) is the follower set of a, and mutual_followers      *)
(* ([a, a]) equals mutual_followers([a]).                                    *)
C6_MutualFollowers ==
    /\ (/\ gcall.op = "mutual_followers"
        /\ gcall.args[1] # <<>>
        /\ ElementsOf(gcall.args[1]) \subseteq RegisteredIds)
       => /\ gret.exc = ""
          /\ gret.val = {f \in Ids : \A a \in ElementsOf(gcall.args[1]) : f \in FollowerSet(a)}
    /\ \A a \in RegisteredIds :
           /\ (gcall.op = "mutual_followers" /\ gcall.args[1] = <<a>>)
              => gret = Returned(FollowerSet(a))
           /\ (gcall.op = "mutual_followers" /\ gcall.args[1] = <<a, a>>)
              => gret = mutual_followers(users, <<a>>)

\* two different users, the result non-empty and smaller than the first list
C6_Witness ==
    /\ gcall.op = "mutual_followers"
    /\ Len(gcall.args[1]) = 2
    /\ gcall.args[1][1] # gcall.args[1][2]
    /\ ElementsOf(gcall.args[1]) \subseteq RegisteredIds
    /\ gret.exc = ""
    /\ gret.val # {}
    /\ gret.val # FollowerSet(gcall.args[1][1])

MostActiveAt(i) ==
    /\ \A j \in 1..Len(UserTable) : OutDegree(UserTable[j].id) <= OutDegree(UserTable[i].id)
    /\ \A j \in 1..(i - 1) : OutDegree(UserTable[j].id) < OutDegree(UserTable[i].id)

(* C8: on a graph with at least one user, find_most_active returns (id,      *)
(* name, count) of the registered user of maximal out-degree, the earliest   *)
(* in the table on ties; (None, None, 0) is returned only on the empty       *)
(* graph.                                                                    *)
C8_MostActive ==
    (gcall.op = "find_most_active" /\ Len(UserTable) > 0)
    => /\ gret.exc = ""
       /\ gret.val # <<None, None, 0>>
       /\ \E i \in 1..Len(UserTable) :
              /\ MostActiveAt(i)
              /\ gret.val = <<UserTable[i].id, UserTable[i].name, OutDegree(UserTable[i].id)>>

\* the i-th user of the table has the longest follower list, and is the
\* earliest such
MostInfluencerAt(i) ==
    /\ \A j \in 1..Len(UserTable) : Len(FollowerList(j)) <= Len(FollowerList(i))
    /\ \A j \in 1..(i - 1) : Len(FollowerList(j)) < Len(FollowerList(i))

(* C9: on a graph with at least one user, find_most_influencer returns (id,  *)
(* name, n) of the user with the longest follower list, n its length, the    *)
(* earliest in the table on ties.                                            *)
C9_MostInfluencer ==
    (gcall.op = "find_most_influencer" /\ Len(UserTable) > 0)
    => /\ gret.exc = ""
       /\ \E i \in 1..Len(UserTable) :
              /\ MostInfluencerAt(i)
              /\ gret.val = <<UserTable[i].id, UserTable[i].name, Len(FollowerList(i))>>

\* a tie for the longest follower list between two users with different names
C9_Witness ==
    /\ gcall.op = "find_most_influencer"
    /\ gret.exc = ""
    /\ gret.val[3] > 0
    /\ \E i, j \in 1..Len(UserTable) :
           /\ i < j
           /\ MostInfluencerAt(i)
           /\ Len(FollowerList(j)) = Len(FollowerList(i))
           /\ UserTable[i].name # UserTable[j].name

(* C10: no query raises, on any graph and for any argument; find_user_index  *)
(* returns -1 for an unknown id, mutual_followers the empty result for an    *)
(* empty list or a list with an unknown id at any position, suggest_follows  *)
(* the empty result for an unknown id.                                       *)
C10_SoftFailure ==
    /\ gcall.op \in QueryOps => gret.exc = ""
    /\ (gcall.op = "find_user_index" /\ gcall.args[1] \notin RegisteredIds)
       => gret = Returned(-1)
    /\ (/\ gcall.op = "mutual_followers"
        /\ \/ gcall.args[1] = <<>>
           \/ ~(ElementsOf(gcall.args[1]) \subseteq RegisteredIds))
       => gret = Returned({})
    /\ (gcall.op = "suggest_follows" /\ gcall.args[1] \notin RegisteredIds)
       => gret = Returned({})

\* mutual_followers returned for a list whose second id is unknown, on a graph
\* with a follower that is no registered user
C10_Witness ==
    /\ gcall.op = "mutual_followers"
    /\ Len(gcall.args[1]) = 2
    /\ gcall.args[1][1] \in RegisteredIds
    /\ FollowerSet(gcall.args[1][1]) # {}
    /\ gcall.args[1][2] \notin RegisteredIds
    /\ gret = Returned({})
    /\ \E a \in RegisteredIds : ~(FollowerSet(a) \subseteq RegisteredIds)

\* the follower list and the post list of a user dict, as sequences
FollowersOf(u) == DynamicArray_to_list(u.followers)

PostsOf(u) == SinglyLinkedList_to_list(u.posts)

IsPrefix(s, t) == Len(s) <= Len(t) /\ SubSeq(t, 1, Len(s)) = s

\* the index in the user table (1-based) of a registered id
TableIndex(id) == CHOOSE i \in 1..Len(UserTable) : UserTable[i].id = id

\* the graph is the same in the two states: the table has the same size and
\* capacity and every user dict in it is as it was
GraphUnchanged ==
    /\ users'.size = users.size
    /\ users'.capacity = users.capacity
    /\ \A j \in 1..users.size : users'.data[j] = users.data[j]

\* between the two states only the user at index i may differ, and neither
\* its id nor its name does
OnlyUserChanged(i) ==
    /\ users'.size = users.size
    /\ users'.capacity = users.capacity
    /\ \A j \in 1..users.size : j # i => users'.data[j] = users.data[j]
    /\ users'.data[i].id = users.data[i].id
    /\ users'.data[i].name = users.data[i].name

(* C14: add_follower(u, f) leaves the whole graph as it was when u is         *)
(* unknown or f is already in u's follower list, and otherwise appends f at  *)
(* the end of that list and changes nothing else; add_post(u, ...) leaves    *)
(* the whole graph as it was when u is unknown, and otherwise appends one     *)
(* post at the end of u's post list and changes nothing else.                 *)
C14_MutatorFrames ==
    [][gcall = NoCall =>
          /\ gcall'.op = "add_follower" =>
                LET u == gcall'.args[1]
                    f == gcall'.args[2]
                IN  IF u \notin RegisteredIds \/ f \in FollowerSet(u)
                    THEN GraphUnchanged
                    ELSE /\ OnlyUserChanged(TableIndex(u))
                         /\ FollowersOf(users'.data[TableIndex(u)])
                               = Append(FollowersOf(users.data[TableIndex(u)]), f)
                         /\ users'.data[TableIndex(u)].posts = users.data[TableIndex(u)].posts
          /\ gcall'.op = "add_post" =>
                LET u == gcall'.args[1]
                    post == gcall'.args[2]
                IN  IF u \notin RegisteredIds
                    THEN GraphUnchanged
                    ELSE /\ OnlyUserChanged(TableIndex(u))
                         /\ PostsOf(users'.data[TableIndex(u)])
                               = Append(PostsOf(users.data[TableIndex(u)]), post)
                         /\ users'.data[TableIndex(u)].followers
                               = users.data[TableIndex(u)].followers]_vars

\* an add_post that put a post behind two other posts, of which it differs
C14_Witness ==
    /\ gcall.op = "add_post"
    /\ gcall.args[1] \in RegisteredIds
    /\ LET u == UserTable[TableIndex(gcall.args[1])]
       IN  /\ Len(PostsOf(u)) = 3
           /\ PostsOf(u)[3] = gcall.args[2]
           /\ PostsOf(u)[1] # gcall.args[2]
           /\ PostsOf(u)[2] # gcall.args[2]

(* C15: the graph only grows by appending: from any state to any later one   *)
(* the user table, every follower list and every post list keep their       *)
(* earlier value as a prefix, and the find_user_index and the stored name of *)
(* a registered user never change.  (A step that leaves the graph as it was *)
(* keeps all of these, so the steps that change it are the ones to look at.) *)
C15_AppendOnly ==
    [][~GraphUnchanged =>
          /\ users'.size >= users.size
          /\ \A i \in 1..users.size :
                /\ users'.data[i].id = users.data[i].id
                /\ users'.data[i].name = users.data[i].name
                /\ IsPrefix(FollowersOf(users.data[i]), FollowersOf(users'.data[i]))
                /\ IsPrefix(PostsOf(users.data[i]), PostsOf(users'.data[i]))
          /\ \A id \in RegisteredIds :
                find_user_index(users', id) = find_user_index(users, id)]_vars

\* a third user was added, which resized the table, after the first user got
\* a follower and a post
C15_Witness ==
    /\ gcall.op = "add_user"
    /\ users.size = 3
    /\ users.capacity > DefaultCapacity
    /\ UserTable[3].id = gcall.args[1]
    /\ Len(FollowersOf(UserTable[1])) = 1
    /\ Len(PostsOf(UserTable[1])) = 1

----------------------------------------------------------------------------
(* The codec as the claims speak of it *)

\* a step of compress that merged a pair, and the step that returned
MergeStep == cpc = "merge" /\ rounds' = rounds + 1

ReturnStep == cpc = "merge" /\ cpc' = "decompress"

\* how often the pair <<p, q>> occurs at adjacent positions of seq
PairCount(seq, p, q) ==
    Cardinality({i \in 1..(Len(seq) - 1) : seq[i] = p /\ seq[i + 1] = q})

\* the positions of seq that start a pair of maximal frequency
MaximalAt(seq) ==
    {i \in 1..(Len(seq) - 1) :
        \A j \in 1..(Len(seq) - 1) :
            PairCount(seq, seq[j], seq[j + 1]) <= PairCount(seq, seq[i], seq[i + 1])}

\* seq with the occurrences of <<p, q>> replaced, greedily from the left and
\* without overlap, by the one symbol p \o q
RECURSIVE Greedy(_, _, _)
Greedy(seq, p, q) ==
    IF Len(seq) < 2 THEN seq
    ELSE IF seq[1] = p /\ seq[2] = q
         THEN <<p \o q>> \o Greedy(SubSeq(seq, 3, Len(seq)), p, q)
         ELSE <<seq[1]>> \o Greedy(Tail(seq), p, q)

(* C16: for any text over an alphabet that may hold the space character, and *)
(* for the empty text, splitting the string compress returned on single       *)
(* spaces, as decompress does, gives exactly the symbol sequence compress     *)
(* held after its last merge step.                                            *)
C16_RenderingSplitsBack ==
    (cpc = "undo" /\ undo = Len(merges_map)) => tokens = text

(* C19: each merge step picks an adjacent pair of maximal frequency in the   *)
(* current symbol sequence, replaces its occurrences greedily from the left  *)
(* without overlap by the one symbol that is their concatenation, and        *)
(* appends that text to the history; there are at most maxMerges steps, and  *)
(* compress stops before that exactly when the sequence has fewer than two   *)
(* symbols, so the history is never longer than maxMerges.                    *)
C19_MergeStep ==
    [][/\ MergeStep =>
             /\ rounds < num_merges
             /\ Len(text) >= 2
             /\ \E i \in MaximalAt(text) :
                   /\ text' = Greedy(text, text[i], text[i + 1])
                   /\ merges_map' = Append(merges_map, text[i] \o text[i + 1])
       /\ ReturnStep => rounds = num_merges \/ Len(text) < 2
       /\ (cpc = "merge" /\ rounds < num_merges /\ Len(text) >= 2) => MergeStep
       /\ Len(merges_map') = rounds' /\ rounds' <= num_merges]_vars

\* compress stopped early, after a merge, on a sequence of one symbol
C19_Witness ==
    /\ cpc = "decompress"
    /\ rounds >= 1
    /\ rounds < num_merges
    /\ Len(text) = 1

(* C20: compress is deterministic, two runs on the same (text, maxMerges)    *)
(* return the same result: what a merge step does is fixed by the sequence   *)
(* it starts from, since among the pairs tied for maximal frequency it takes *)
(* the one whose first occurrence is leftmost.                                *)
C20_LeftmostTieBreak ==
    [][MergeStep =>
          \E i \in MaximalAt(text) :
              /\ \A j \in MaximalAt(text) : i <= j
              /\ text' = Greedy(text, text[i], text[i + 1])
              /\ merges_map' = Append(merges_map, text[i] \o text[i + 1])]_vars

\* the first merge step was made on a text with two different pairs of
\* maximal frequency, and took the one that occurs first
C20_Witness ==
    /\ rounds = 1
    /\ LET seq == ListOfChars(data)
       IN  \E i \in MaximalAt(seq), j \in MaximalAt(seq) :
               /\ i < j
               /\ <<seq[i], seq[i + 1]>> # <<seq[j], seq[j + 1]>>
               /\ \A k \in MaximalAt(seq) : i <= k
               /\ merges_map = <<seq[i] \o seq[i + 1]>>
               /\ text = Greedy(seq, seq[i], seq[i + 1])

----------------------------------------------------------------------------
(* The linked list as the claims speak of it *)

\* the node reached from the head by n steps along next (0 once the chain ended)
RECURSIVE NodeAfter(_)
NodeAfter(n) ==
    IF n = 0 THEN sll.head
    ELSE IF NodeAfter(n - 1) = 0 THEN 0
    ELSE sll.nodes[NodeAfter(n - 1)].next

\* the nodes reachable from the head
Reachable == {NodeAfter(n) : n \in 0..Len(sll.nodes)} \ {0}

\* the chain from the head ends, without coming back to a node
Acyclic == NodeAfter(Cardinality(Reachable)) = 0

Reverse(seq) == [i \in 1..Len(seq) |-> seq[Len(seq) - i + 1]]

(* C22: after any interleaving of insert_at_head and insert_at_tail, len is  *)
(* the number of nodes reachable from head, which form a finite acyclic      *)
(* chain, and to_list is the head-inserted values in reverse insertion order *)
(* followed by the tail-inserted values in insertion order.                   *)
C22_ListOrder ==
    /\ Acyclic
    /\ SinglyLinkedList_len(sll) = Cardinality(Reachable)
    /\ SinglyLinkedList_to_list(sll) = Reverse(head_inserted) \o tail_inserted

\* head and tail inserts were interleaved: the list was built by a tail
\* insert, then head inserts, then a tail insert again
C22_Witness ==
    /\ Len(head_inserted) >= 2
    /\ Len(tail_inserted) >= 2
    /\ head_inserted[1] # head_inserted[2]
    /\ tail_inserted[1] # tail_inserted[2]
    /\ sll.nodes[1].next # 0
    /\ sll.head \notin {1, Len(sll.nodes)}
    /\ sll.nodes[Len(sll.nodes)].next = 0

----------------------------------------------------------------------------
(* The undo steps of decompress as the claims speak of them *)

UndoStep == cpc = "undo" /\ undo' = undo - 1

NoSpace(str) == \A i \in 1..Len(str) : str[i] # " "

(* C21: in decompress, undoing one merge token replaces every symbol whose   *)
(* text equals that token by exactly two symbols, for merge tokens of any    *)
(* length: for compress("aaaa", 2) the sequence after undoing the last merge *)
(* is ["aa", "aa"] and after undoing the first it is ["a", "a", "a", "a"].   *)
C21_UndoSplitsInTwo ==
    [][UndoStep =>
          LET matching == {i \in 1..Len(tokens) : tokens[i] = merges_map[undo]}
          IN  /\ Len(tokens') = Len(tokens) + Cardinality(matching)
              /\ JoinEmpty(tokens') = JoinEmpty(tokens)]_vars

(* C23: for every string s without a space, the empty one included, every    *)
(* k >= 0 and every merge history h, not only the one compress returned,     *)
(* decompress(c, h) = s where c is the string compress(s, k) returned: the   *)
(* concatenation of the symbol texts is s after every merge step of compress *)
(* and after every split step of decompress.                                  *)
C23_ConcatenationInvariant ==
    NoSpace(data) =>
        /\ cpc \in {"merge", "decompress"} => JoinEmpty(text) = data
        /\ cpc = "undo" => JoinEmpty(tokens) = data
        /\ cpc = "done" => output = data

\* decompress returned after it was given a history longer than the one
\* compress made, and split symbols that equal tokens of that history
C23_Witness ==
    /\ cpc = "done"
    /\ NoSpace(data)
    /\ rounds >= 1
    /\ Len(merges_map) > rounds
    /\ Len(tokens) > Len(text)

====
